---------------------------- MODULE Spec2Model ----------------------------
(***************************************************************************)
(* Model of the AES-GCM password vault (PasswordVault/vault_aes.c with     *)
(* PasswordVault/crypto.c).                                                *)
(*                                                                         *)
(* Text is a sequence of character codes.  A file is a sequence of cells.  *)
(* A cell is one byte of the file: either a literal byte [b |-> 0..255] or *)
(* one byte of the output of a cryptographic primitive, kept as a term:    *)
(*   [r, i, x]     byte i of the RAND_bytes draw number r                  *)
(*   [e, i, p, x]  byte i of the AES-GCM ciphertext under e = (key, nonce) *)
(*                 of the plaintext byte p                                 *)
(*   [m, i, x]     byte i of the GCM tag of m = (key, nonce, ciphertext)   *)
(*   [g, i]        byte i of a decryption that yields no known plaintext   *)
(* x is the set of bit positions (0..7) that were flipped in the byte      *)
(* since the primitive produced it.  OpenSSL is outside the repository:    *)
(* PBKDF2, the GCM tag and RAND_bytes are taken collision-free, so two     *)
(* outputs are equal exactly when they are the same term.                  *)
(***************************************************************************)
EXTENDS Integers, Sequences, FiniteSets, TLC

(* ----------------------------- constants ------------------------------ *)

MAGIC_LEN == 6
SALT_LEN == 16
NONCE_LEN == 12
TAG_LEN == 16
KEY_LEN == 32
PBKDF2_ITERS == 200000
MAX_LINE == 1024

TAB == 9
NL == 10
HASH == 35

\* "VAES1\n"
MAGIC == <<86, 65, 69, 83, 49, 10>>

\* "# AES_VAULT (authenticated)\n"
HDR == <<35, 32, 65, 69, 83, 95, 86, 65, 85, 76, 84, 32, 40, 97, 117, 116,
         104, 101, 110, 116, 105, 99, 97, 116, 101, 100, 41, 10>>

(* ------------------------------- bounds ------------------------------- *)

\* saves (init/add reaching save_vault) in one behaviour
MaxSaves == 3
\* rows of the vault whose file is tampered with
MaxRows == 1

(* ------------------------------ C strings ----------------------------- *)

RECURSIVE Concat(_)
\* the concatenation of a sequence of sequences
Concat(ss) == IF ss = <<>> THEN <<>> ELSE Head(ss) \o Concat(Tail(ss))

\* the first n elements of s (all of s when it is shorter)
Take(s, n) == SubSeq(s, 1, IF n < Len(s) THEN n ELSE Len(s))

\* s without its first n elements
Drop(s, n) == SubSeq(s, n + 1, Len(s))

\* strchr(s, c) != NULL
HasChar(s, c) == \E i \in 1..Len(s) : s[i] = c

\* index of the first element of s from position i on that is in set D,
\* Len(s) + 1 when there is none
RECURSIVE FindIn(_, _, _)
FindIn(s, i, D) ==
    IF i > Len(s) THEN Len(s) + 1
    ELSE IF s[i] \in D THEN i ELSE FindIn(s, i + 1, D)

\* index of the first element of s from position i on that is not in D
RECURSIVE FindNotIn(_, _, _)
FindNotIn(s, i, D) ==
    IF i > Len(s) THEN Len(s) + 1
    ELSE IF s[i] \notin D THEN i ELSE FindNotIn(s, i + 1, D)

\* a char buffer read as a C string: the bytes before the first NUL
CStr(s) == Take(s, FindIn(s, 1, {0}) - 1)

\* the tokens strtok/strtok_r return for the C string s and the delimiter
\* d, in order: leading delimiters are skipped, a token ends at the next
\* delimiter, so no token is empty and a run of delimiters separates once
RECURSIVE StrTok(_, _)
StrTok(s, d) ==
    LET b == FindNotIn(s, 1, {d})
        e == FindIn(s, b, {d})
    IN IF b > Len(s) THEN <<>>
       ELSE <<SubSeq(s, b, e - 1)>> \o StrTok(Drop(s, e), d)

\* snprintf(buf, n, "%s", s) and strncpy(buf, s, n); buf[n-1] = 0:
\* at most n - 1 characters are kept
Truncate(s, n) == Take(s, n - 1)

(* ------------------------- TSV lines in memory ------------------------ *)

\* the row cmd_add builds: snprintf(line, MAX_LINE, "%s\t%s\t%s", ...)
MakeLine(svc, usr, pwd) == Truncate(svc \o <<TAB>> \o usr \o <<TAB>> \o pwd, MAX_LINE)

\* serialize: the header line, then every row followed by '\n'
serialize(L) == HDR \o Concat([i \in 1..Len(L) |-> L[i] \o <<NL>>])

\* parse_lines: the tokens of the blob between newlines, without those
\* that start with '#'
parse_lines(plain) ==
    LET toks == StrTok(CStr(plain), NL)
    IN SelectSeq(toks, LAMBDA t : t[1] # HASH)

(* -------------------------------- cells ------------------------------- *)

ByteCell(v) == [b |-> v]
Bytes(s) == [i \in 1..Len(s) |-> ByteCell(s[i])]
IsByte(c) == "b" \in DOMAIN c

\* v with bit k flipped
FlipBit(v, k) == IF (v \div (2 ^ k)) % 2 = 1 THEN v - 2 ^ k ELSE v + 2 ^ k

\* v with every bit of the set X flipped
RECURSIVE FlipBits(_, _)
FlipBits(v, X) ==
    IF X = {} THEN v
    ELSE LET k == CHOOSE k \in X : TRUE IN FlipBits(FlipBit(v, k), X \ {k})

\* cell c with bit k flipped
FlipCell(c, k) ==
    IF IsByte(c) THEN ByteCell(FlipBit(c.b, k))
    ELSE IF "x" \in DOMAIN c
         THEN [c EXCEPT !.x = (c.x \ {k}) \cup ({k} \ c.x)]
         ELSE [g |-> c, i |-> k]

\* a uint32_t copied to the file with memcpy on a little-endian host
Le32(n) ==
    Bytes(<<n % 256, (n \div 256) % 256, (n \div 65536) % 256, (n \div 16777216) % 256>>)

\* the value of a literal byte; a byte of a primitive's output has a value
\* the model does not know, read here as 255
Val(c) == IF IsByte(c) THEN c.b ELSE 255

\* the uint32_t memcpy reads from four cells is 2^31 or more
U32Big(cs) == Val(cs[4]) >= 128

\* the uint32_t memcpy reads from four cells, when below 2^31
UnLe32(cs) ==
    Val(cs[1]) + 256 * Val(cs[2]) + 65536 * Val(cs[3]) + 16777216 * (Val(cs[4]) % 128)

(* --------------------------- crypto.c / OpenSSL ----------------------- *)

\* crypto_rand that fills the buffer with the same bytes on every call
crypto_rand_stuck(n, len) == [i \in 1..len |-> [r |-> 0, i |-> i, x |-> {}]]

\* crypto_rand: the bytes of RAND_bytes draw number n
crypto_rand(n, len) == [i \in 1..len |-> [r |-> n, i |-> i, x |-> {}]]

\* a run of cells in canonical form: a whole untouched draw is named by
\* its number
Pack(cs) ==
    IF cs # <<>> /\ "r" \in DOMAIN cs[1] /\ cs = crypto_rand(cs[1].r, Len(cs))
    THEN [d |-> cs[1].r, n |-> Len(cs)]
    ELSE [s |-> cs]

\* kdf_pbkdf2_sha256: -1 (no key) when PKCS5_PBKDF2_HMAC refuses the
\* iteration count (int)iters, as OpenSSL 3 does below 1; else the key as
\* a term of its inputs
kdf_ok(itcells) == ~U32Big(itcells) /\ UnLe32(itcells) >= 1
\* a key derivation that leaves the password out
kdf_without_password(password, salt, iters) ==
    [pw |-> "", salt |-> Pack(salt), it |-> iters]

\* a key derivation that leaves the salt out
kdf_without_salt(password, salt, iters) ==
    [pw |-> password, salt |-> Pack(<<>>), it |-> iters]

kdf_pbkdf2_sha256(password, salt, iters) ==
    [pw |-> password, salt |-> Pack(salt), it |-> iters]

\* aes256gcm_encrypt: ciphertext byte i is a term of (key, nonce), i and
\* the plaintext byte; the ciphertext is as long as the plaintext
GcmCt(key, nonce, pt) ==
    [i \in 1..Len(pt) |-> [e |-> [k |-> key, n |-> Pack(nonce)], i |-> i, p |-> pt[i], x |-> {}]]

\* a ciphertext in canonical form: an untouched output of GcmCt is named
\* by its inputs
PackCt(ct) ==
    IF ct # <<>> /\ "e" \in DOMAIN ct[1]
       /\ \A i \in 1..Len(ct) : "e" \in DOMAIN ct[i] /\ ct[i].e = ct[1].e
                                /\ ct[i].i = i /\ ct[i].x = {}
    THEN [e |-> ct[1].e, pt |-> [i \in 1..Len(ct) |-> ct[i].p]]
    ELSE [s |-> ct]

\* the GCM tag (no associated data is passed) of ciphertext ct
GcmTag(key, nonce, ct) ==
    [i \in 1..TAG_LEN |->
        [m |-> [k |-> key, n |-> Pack(nonce), c |-> PackCt(ct)], i |-> i, x |-> {}]]

aes256gcm_encrypt(key, nonce, pt) ==
    LET ct == GcmCt(key, nonce, pt)
    IN [ct |-> ct, tag |-> GcmTag(key, nonce, ct)]

\* what EVP_DecryptUpdate writes for ciphertext byte c at position i: the
\* plaintext byte with the bits flipped that were flipped in the
\* ciphertext (counter mode) under the key and nonce that encrypted it,
\* and a byte unrelated to any plaintext otherwise
GcmPt(key, nonce, c, i) ==
    IF "e" \in DOMAIN c /\ c.e = [k |-> key, n |-> Pack(nonce)] /\ c.i = i
    THEN ByteCell(FlipBits(c.p, c.x))
    ELSE [g |-> [k |-> key, n |-> Pack(nonce), c |-> c], i |-> i]

\* aes256gcm_decrypt that returns 0 whatever EVP_DecryptFinal_ex says
aes256gcm_decrypt_unchecked(key, nonce, ct, tag) ==
    [ok |-> TRUE, out_pt |-> [i \in 1..Len(ct) |-> GcmPt(key, nonce, ct[i], i)]]

\* aes256gcm_decrypt: EVP_DecryptUpdate fills out_pt, then
\* EVP_DecryptFinal_ex compares the tag; ok is the returned 0
aes256gcm_decrypt(key, nonce, ct, tag) ==
    [ok |-> tag = GcmTag(key, nonce, ct),
     out_pt |-> [i \in 1..Len(ct) |-> GcmPt(key, nonce, ct[i], i)]]

(* ------------------------------- files -------------------------------- *)

NoFile == [exists |-> FALSE, data |-> <<>>, mode |-> 0]
File(cells, mode) == [exists |-> TRUE, data |-> cells, mode |-> mode]

\* the permission bits of a file fopen(.., "wb") creates (0666 less the
\* usual umask 022) and those chmod(path, 0600) sets, in decimal
MODE_CREATE == 420
MODE_OWNER == 384

(* ------------------------------ save_vault ---------------------------- *)

\* the bytes save_vault hands to write_all_atomic for the rows L, with the
\* salt and the nonce it drew
Container(L, password, salt, nonce) ==
    LET plain == serialize(L)
        key == kdf_pbkdf2_sha256(password, salt, PBKDF2_ITERS)
        enc == aes256gcm_encrypt(key, nonce, plain)
    IN Bytes(MAGIC) \o Le32(PBKDF2_ITERS) \o salt \o nonce
       \o Le32(Len(plain)) \o enc.ct \o enc.tag

(* ------------------------------ load_vault ---------------------------- *)

E_NOVAULT == "No vault. Run: ./vault_aes init"
E_MALLOC == "malloc"
E_MAGIC == "Not an AES vault (bad magic)"
E_SMALL == "Corrupt vault (too small)"
E_OVERRUN == "Corrupt vault (ct overrun)"
E_KDF == "KDF failed"
E_AUTH == "Wrong master password or vault has been tampered."

HEADER_LEN == MAGIC_LEN + 4 + SALT_LEN + NONCE_LEN + 4

\* load_vault that compares the magic before it looks at the size
load_vault_magic_first(f, password, null0) ==
    LET buf == f.data
        sz == Len(buf)
        fail(msg, pl, rd, evs) ==
            [err |-> msg, L |-> <<>>, plain |-> pl, parsed |-> FALSE, reads |-> rd, ev |-> evs]
        itc == SubSeq(buf, MAGIC_LEN + 1, MAGIC_LEN + 4)
        salt == SubSeq(buf, MAGIC_LEN + 5, MAGIC_LEN + 4 + SALT_LEN)
        nonce == SubSeq(buf, MAGIC_LEN + 4 + SALT_LEN + 1, MAGIC_LEN + 4 + SALT_LEN + NONCE_LEN)
        clc == SubSeq(buf, HEADER_LEN - 3, HEADER_LEN)
        ct_len == UnLe32(clc)
        ct == SubSeq(buf, HEADER_LEN + 1, HEADER_LEN + ct_len)
        tag == SubSeq(buf, HEADER_LEN + ct_len + 1, HEADER_LEN + ct_len + TAG_LEN)
        key == kdf_pbkdf2_sha256(password, salt, UnLe32(itc))
        dec == aes256gcm_decrypt(key, nonce, ct, tag)
        plain == [i \in 1..Len(dec.out_pt) |-> Val(dec.out_pt[i])]
        all == HEADER_LEN + ct_len + TAG_LEN
    IN IF ~f.exists THEN fail(E_NOVAULT, <<>>, 0, <<>>)
       ELSE IF sz = 0 /\ null0 THEN fail(E_MALLOC, <<>>, 0, <<>>)
       ELSE IF Take(buf, MAGIC_LEN) # Bytes(MAGIC) THEN fail(E_MAGIC, <<>>, MAGIC_LEN, <<>>)
       ELSE IF sz < HEADER_LEN + TAG_LEN THEN fail(E_SMALL, <<>>, MAGIC_LEN, <<>>)
       ELSE IF U32Big(clc) \/ sz < HEADER_LEN + ct_len + TAG_LEN
       THEN fail(E_OVERRUN, <<>>, HEADER_LEN, <<>>)
       ELSE IF ~kdf_ok(itc) THEN fail(E_KDF, <<>>, all, <<"kdf failed">>)
       ELSE IF ~dec.ok
       THEN fail(E_AUTH, dec.out_pt, all,
                 <<"kdf", "decrypt", "zero key", "zero plain", "zero buf">>)
       ELSE [err |-> "", L |-> parse_lines(plain), plain |-> dec.out_pt, parsed |-> TRUE,
             reads |-> all,
             ev |-> <<"kdf", "decrypt", "parse", "zero key", "zero plain", "zero buf">>]

\* load_vault on the file f with the password given; null0 says whether
\* malloc(0) returns NULL (read_all of an empty file then ends in
\* die("malloc")).  The result: err is the message printed before exit(1)
\* ("" when load_vault returns), L the rows handed back, plain what the
\* plaintext buffer held when aes256gcm_decrypt returned, parsed whether
\* parse_lines ran, reads the number of leading bytes of the file buffer
\* that were read (memcmp, memcpy, the ciphertext handed to the cipher),
\* ev the calls made in order: "kdf" fills the key buffer, "decrypt" the
\* plaintext buffer, "parse" copies the rows into Lines, "zero .." is
\* secure_bzero of that buffer.
load_vault(f, password, null0) ==
    LET buf == f.data
        sz == Len(buf)
        fail(msg, pl, rd, evs) ==
            [err |-> msg, L |-> <<>>, plain |-> pl, parsed |-> FALSE, reads |-> rd, ev |-> evs]
        itc == SubSeq(buf, MAGIC_LEN + 1, MAGIC_LEN + 4)
        salt == SubSeq(buf, MAGIC_LEN + 5, MAGIC_LEN + 4 + SALT_LEN)
        nonce == SubSeq(buf, MAGIC_LEN + 4 + SALT_LEN + 1, MAGIC_LEN + 4 + SALT_LEN + NONCE_LEN)
        clc == SubSeq(buf, HEADER_LEN - 3, HEADER_LEN)
        ct_len == UnLe32(clc)
        ct == SubSeq(buf, HEADER_LEN + 1, HEADER_LEN + ct_len)
        tag == SubSeq(buf, HEADER_LEN + ct_len + 1, HEADER_LEN + ct_len + TAG_LEN)
        key == kdf_pbkdf2_sha256(password, salt, UnLe32(itc))
        dec == aes256gcm_decrypt(key, nonce, ct, tag)
        plain == [i \in 1..Len(dec.out_pt) |-> Val(dec.out_pt[i])]
        all == HEADER_LEN + ct_len + TAG_LEN
    IN IF ~f.exists THEN fail(E_NOVAULT, <<>>, 0, <<>>)
       ELSE IF sz = 0 /\ null0 THEN fail(E_MALLOC, <<>>, 0, <<>>)
       ELSE IF sz < MAGIC_LEN THEN fail(E_MAGIC, <<>>, 0, <<>>)
       ELSE IF SubSeq(buf, 1, MAGIC_LEN) # Bytes(MAGIC) THEN fail(E_MAGIC, <<>>, MAGIC_LEN, <<>>)
       ELSE IF sz < HEADER_LEN + TAG_LEN THEN fail(E_SMALL, <<>>, MAGIC_LEN, <<>>)
       ELSE IF U32Big(clc) \/ sz < HEADER_LEN + ct_len + TAG_LEN
       THEN fail(E_OVERRUN, <<>>, HEADER_LEN, <<>>)
       ELSE IF ~kdf_ok(itc) THEN fail(E_KDF, <<>>, all, <<"kdf failed">>)
       ELSE IF ~dec.ok
       THEN fail(E_AUTH, dec.out_pt, all,
                 <<"kdf", "decrypt", "zero key", "zero plain", "zero buf">>)
       ELSE [err |-> "", L |-> parse_lines(plain), plain |-> dec.out_pt, parsed |-> TRUE,
             reads |-> all,
             ev |-> <<"kdf", "decrypt", "parse", "zero key", "zero plain", "zero buf">>]

(* ------------------------------- inputs ------------------------------- *)

\* an argument that was not given on the command line (a NULL pointer)
NULLARG == <<-1>>

\* the values tried for --service (and for the query of show), --user, --pass
Services == {<<>>, <<97>>, <<HASH>>, <<TAB>>}
Users == {<<>>, <<117>>, <<NL>>}
Secrets == {<<112>>}

\* the master passwords typed at the prompt; PW_NULL is prompt_hidden
\* returning NULL (no terminal, end of input)
Passwords == {"Secret1", "WrongPass"}
PW_NULL == "(null)"

\* files found at the vault path that this program did not write: an empty
\* file, a text file, a file cut after the magic, a header whose
\* ciphertext length runs past the end of the file, and a header with an
\* iteration count of 0 and no ciphertext
ForeignFiles ==
    { <<>>,
      Bytes(<<104, 105, 10>>),
      Bytes(MAGIC),
      Bytes(MAGIC) \o Le32(PBKDF2_ITERS) \o Bytes([i \in 1..(SALT_LEN + NONCE_LEN) |-> 0])
         \o Le32(1000) \o Bytes([i \in 1..TAG_LEN |-> 0]),
      Bytes(MAGIC) \o Le32(0) \o Bytes([i \in 1..(SALT_LEN + NONCE_LEN) |-> 0])
         \o Le32(0) \o Bytes([i \in 1..TAG_LEN |-> 0]) }

(* -------------------------------- state ------------------------------- *)

VARIABLES
    vaultFile,  \* the file at VAULT_FILE
    tmpFile,    \* the file at VAULT_FILE ".tmp"
    proc,       \* the invocations of the program, by process: pc is where
                \* the process stands, L its Lines, out and err what it
                \* printed, fd where the file its stream is open on is now
                \* ("tmp", "vault", "gone" once unlinked), off how many
                \* bytes the stream has written; ev, buf, rows, old, outb
                \* are history
    rng,        \* the number of RAND_bytes draws made so far
    saves,      \* history: the salt and nonce of every save_vault so far
    orig,       \* history: the container, rows and password of the save
                \* whose file is tampered with
    flipped     \* history: the (byte, bit) positions flipped in the vault file

vars == <<vaultFile, tmpFile, proc, rng, saves, orig, flipped>>

Procs == {1, 2}

\* the process state before main runs
Fresh ==
    [pc |-> "idle", cmd |-> "none", svc |-> NULLARG, usr |-> NULLARG, pwd |-> NULLARG,
     pw |-> PW_NULL, L |-> <<>>, exit |-> -1, out |-> <<>>, err |-> <<>>, ev |-> <<>>,
     buf |-> NoFile, rows |-> <<>>, old |-> NoFile, outb |-> <<>>, fd |-> "none", off |-> 0]

Running(p) == proc[p].pc \notin {"idle", "exited", "crashed"}

\* invocations run one after another: a command starts when no other runs
\* and process p is free
CanStart(p) == proc[p].pc = "idle" /\ \A q \in Procs : ~Running(q)

\* return code from main / exit(code), with a line on stderr or stdout
Exit(st, code) == [st EXCEPT !.pc = "exited", !.exit = code]
Fail(st, msg) == Exit([st EXCEPT !.err = Append(@, msg)], 1)
Event(st, e) == [st EXCEPT !.ev = Append(@, e)]

Init ==
    /\ vaultFile \in {NoFile} \cup {File(d, MODE_CREATE) : d \in ForeignFiles}
    /\ tmpFile = NoFile
    /\ proc = [p \in Procs |-> Fresh]
    /\ rng = 0
    /\ saves = <<>>
    /\ orig = [file |-> NoFile, L |-> <<>>, pw |-> PW_NULL]
    /\ flipped = {}

(* ------------------------- save_vault, first part --------------------- *)

\* the process drew from RAND_bytes
Drew(st) == \E i \in 1..Len(st.ev) : st.ev[i] = "rand"

SaveFaults == {"none", "rand", "kdf", "encrypt"}

\* the salt and the nonce the next save_vault draws
SaveSalt == crypto_rand(rng + 1, SALT_LEN)
SaveNonce == crypto_rand(rng + 2, NONCE_LEN)

\* save_vault up to the call of write_all_atomic, for the process state st
\* holding the rows st.L: draws salt and nonce, serializes (fills the
\* plaintext buffer), derives the key, encrypts and assembles the
\* container; a failing call ends the process where it stands
SavePrepare(st, password, fault) ==
    IF fault = "rand" THEN Fail(st, "RAND(salt)")
    ELSE IF fault = "kdf"
    THEN Fail([st EXCEPT !.ev = @ \o <<"rand", "serialize", "kdf failed">>], E_KDF)
    ELSE IF fault = "encrypt"
    THEN Fail([st EXCEPT !.ev = @ \o <<"rand", "serialize", "kdf", "encrypt failed">>],
              "encrypt failed")
    ELSE [st EXCEPT
             !.ev = @ \o <<"rand", "serialize", "kdf", "encrypt", "assemble">>,
             !.pc = "fopen",
             !.old = vaultFile,
             !.outb = Container(st.L, password, SaveSalt, SaveNonce)]

\* the draws save_vault makes and the history of salts and nonces
SaveDraws(fault) ==
    IF fault = "rand" THEN UNCHANGED <<rng, saves>>
    ELSE /\ rng' = rng + 2
         /\ saves' = Append(saves, [salt |-> SaveSalt, nonce |-> SaveNonce])

(* ------------------------------ commands ------------------------------ *)

\* malloc(0) in read_all may or may not return NULL
Null0Choices(f) == IF f.exists /\ f.data = <<>> THEN BOOLEAN ELSE {FALSE}

\* main with argc < 2, or with a command that is none of the four
CmdOther(p, known) ==
    /\ CanStart(p)
    /\ proc' = [proc EXCEPT ![p] =
                  Fail([Fresh EXCEPT !.cmd = IF known THEN "usage" ELSE "unknown"],
                       IF known THEN "Usage:" ELSE "Unknown command")]
    /\ UNCHANGED <<vaultFile, tmpFile, rng, saves, orig, flipped>>

\* cmd_init without the file_exists test
cmd_init_overwrite(st, pw1, pw2, fault) ==
    LET s1 == Event(Event(st, "prompt"), "prompt")
    IN IF pw1 = PW_NULL \/ pw2 = PW_NULL THEN Fail(s1, "password input failed")
       ELSE IF pw1 # pw2 THEN Fail(Event(s1, "zero pw"), "Passwords do not match.")
       ELSE SavePrepare([s1 EXCEPT !.pw = pw1, !.L = <<>>], pw1, fault)

\* cmd_init that saves a vault holding a sample record
cmd_init_seeded(st, pw1, pw2, fault) ==
    IF vaultFile.exists THEN Fail(st, "Refusing to overwrite existing vault_aes.dat")
    ELSE LET s1 == Event(Event(st, "prompt"), "prompt")
         IN IF pw1 = PW_NULL \/ pw2 = PW_NULL THEN Fail(s1, "password input failed")
            ELSE IF pw1 # pw2 THEN Fail(Event(s1, "zero pw"), "Passwords do not match.")
            ELSE SavePrepare([s1 EXCEPT !.pw = pw1,
                                        !.L = <<MakeLine(<<97>>, <<117>>, <<112>>)>>],
                             pw1, fault)

\* cmd_init up to the call of write_all_atomic
cmd_init(st, pw1, pw2, fault) ==
    IF vaultFile.exists THEN Fail(st, "Refusing to overwrite existing vault_aes.dat")
    ELSE LET s1 == Event(Event(st, "prompt"), "prompt")
         IN IF pw1 = PW_NULL \/ pw2 = PW_NULL THEN Fail(s1, "password input failed")
            ELSE IF pw1 # pw2 THEN Fail(Event(s1, "zero pw"), "Passwords do not match.")
            ELSE SavePrepare([s1 EXCEPT !.pw = pw1, !.L = <<>>], pw1, fault)

CmdInit(p, pw1, pw2, fault) ==
    /\ CanStart(p)
    /\ Len(saves) < MaxSaves
    /\ LET st == cmd_init([Fresh EXCEPT !.cmd = "init"], pw1, pw2, fault)
       IN /\ proc' = [proc EXCEPT ![p] = st]
          /\ IF Drew(st) THEN SaveDraws(fault) ELSE UNCHANGED <<rng, saves>>
    /\ UNCHANGED <<vaultFile, tmpFile, orig, flipped>>

\* Open that goes on after a failed authentication with whatever
\* aes256gcm_decrypt left in the plaintext buffer
OpenIgnoreFailure(st, pw, null0) ==
    LET s1 == Event(st, "prompt")
        r == load_vault(vaultFile, pw, null0)
        s2 == [Event(s1, "read") EXCEPT !.pw = pw, !.buf = vaultFile, !.ev = @ \o r.ev]
        got == IF r.err = E_AUTH
               THEN parse_lines([i \in 1..Len(r.plain) |-> Val(r.plain[i])])
               ELSE r.L
    IN IF pw = PW_NULL THEN Fail(s1, "password input failed")
       ELSE IF r.err \notin {"", E_AUTH} THEN Fail(s2, r.err)
       ELSE [s2 EXCEPT !.pc = "loaded", !.L = got, !.rows = got]

\* Open that takes a missing vault file for an empty vault
OpenMissingOk(st, pw, null0) ==
    LET s1 == Event(st, "prompt")
        r == load_vault(vaultFile, pw, null0)
        s2 == [Event(s1, "read") EXCEPT !.pw = pw, !.buf = vaultFile, !.ev = @ \o r.ev]
    IN IF pw = PW_NULL THEN Fail(s1, "password input failed")
       ELSE IF r.err = E_NOVAULT THEN [s2 EXCEPT !.pc = "loaded"]
       ELSE IF r.err # "" THEN Fail(s2, r.err)
       ELSE [s2 EXCEPT !.pc = "loaded", !.L = r.L, !.rows = r.L]

\* Open that says which of the two it was when authentication fails: the
\* password, when the file is one save_vault wrote, else the file
OpenTelling(st, pw, null0) ==
    LET s1 == Event(st, "prompt")
        r == load_vault(vaultFile, pw, null0)
        s2 == [Event(s1, "read") EXCEPT !.pw = pw, !.buf = vaultFile, !.ev = @ \o r.ev]
    IN IF pw = PW_NULL THEN Fail(s1, "password input failed")
       ELSE IF r.err = E_AUTH /\ \E P \in Passwords : load_vault(vaultFile, P, null0).err = ""
       THEN Fail(s2, "Wrong master password.")
       ELSE IF r.err # "" THEN Fail(s2, r.err)
       ELSE [s2 EXCEPT !.pc = "loaded", !.L = r.L, !.rows = r.L]

\* the part of a command that prompts for the master password and calls
\* load_vault: on failure the process has exited with 1, else st.L holds
\* the rows and the process is at pc "loaded"
Open(st, pw, null0) ==
    LET s1 == Event(st, "prompt")
        r == load_vault(vaultFile, pw, null0)
        s2 == [Event(s1, "read") EXCEPT !.pw = pw, !.buf = vaultFile, !.ev = @ \o r.ev]
    IN IF pw = PW_NULL THEN Fail(s1, "password input failed")
       ELSE IF r.err # "" THEN Fail(s2, r.err)
       ELSE [s2 EXCEPT !.pc = "loaded", !.L = r.L, !.rows = r.L]

\* cmd_add without the test for tabs and newlines
cmd_add_open_unchecked(st, pw, null0) ==
    IF st.svc = NULLARG \/ st.usr = NULLARG \/ st.pwd = NULLARG
    THEN Fail(st, "Usage: vault_aes add --service S --user U --pass P")
    ELSE Open(st, pw, null0)

\* cmd_add up to the return of load_vault
cmd_add_open(st, pw, null0) ==
    IF st.svc = NULLARG \/ st.usr = NULLARG \/ st.pwd = NULLARG
    THEN Fail(st, "Usage: vault_aes add --service S --user U --pass P")
    ELSE IF \/ HasChar(st.svc, TAB) \/ HasChar(st.usr, TAB) \/ HasChar(st.pwd, TAB)
            \/ HasChar(st.svc, NL) \/ HasChar(st.usr, NL) \/ HasChar(st.pwd, NL)
    THEN Fail(st, "Tabs/newlines not allowed in fields.")
    ELSE Open(st, pw, null0)

\* main starts cmd_add in process p
StartAdd(p, svc, usr, pwd, pw, null0) ==
    /\ proc' = [proc EXCEPT ![p] =
                  cmd_add_open([Fresh EXCEPT !.cmd = "add", !.svc = svc, !.usr = usr,
                                             !.pwd = pwd], pw, null0)]
    /\ UNCHANGED <<vaultFile, tmpFile, rng, saves, orig, flipped>>

CmdAdd(p, svc, usr, pwd, pw, null0) ==
    /\ CanStart(p)
    /\ Len(saves) < MaxSaves
    /\ StartAdd(p, svc, usr, pwd, pw, null0)

\* the second half of cmd_add, reading the vault again before it appends
AddSaveReload(p, fault) ==
    /\ proc[p].pc = "loaded"
    /\ proc[p].cmd = "add"
    /\ LET st == proc[p]
           now == load_vault(vaultFile, st.pw, FALSE).L
           s1 == [st EXCEPT !.L = Append(now, MakeLine(st.svc, st.usr, st.pwd))]
       IN proc' = [proc EXCEPT ![p] = SavePrepare(s1, st.pw, fault)]
    /\ SaveDraws(fault)
    /\ UNCHANGED <<vaultFile, tmpFile, orig, flipped>>

\* cmd_add after load_vault: lines_push of the new row, then save_vault up
\* to the call of write_all_atomic
\* an add that encrypts the new container under another password than
\* the one that opened the old one
AddSaveRekey(p, fault) ==
    /\ proc[p].pc = "loaded"
    /\ proc[p].cmd = "add"
    /\ LET st == proc[p]
           other == CHOOSE Q \in Passwords : Q # st.pw
           s1 == [st EXCEPT !.L = Append(@, MakeLine(st.svc, st.usr, st.pwd))]
       IN proc' = [proc EXCEPT ![p] = SavePrepare(s1, other, fault)]
    /\ SaveDraws(fault)
    /\ UNCHANGED <<vaultFile, tmpFile, orig, flipped>>

AddSave(p, fault) ==
    /\ proc[p].pc = "loaded"
    /\ proc[p].cmd = "add"
    /\ LET st == proc[p]
           s1 == [st EXCEPT !.L = Append(@, MakeLine(st.svc, st.usr, st.pwd))]
       IN proc' = [proc EXCEPT ![p] = SavePrepare(s1, st.pw, fault)]
    /\ SaveDraws(fault)
    /\ UNCHANGED <<vaultFile, tmpFile, orig, flipped>>

\* the loop of cmd_list: the first strtok token of every row copied into
\* a buffer of MAX_LINE bytes
ListLines(L) ==
    LET tok(i) == StrTok(Truncate(L[i], MAX_LINE), TAB)
        idx == SelectSeq([i \in 1..Len(L) |-> i], LAMBDA i : tok(i) # <<>>)
    IN [j \in 1..Len(idx) |-> <<"", tok(idx[j])[1]>>]

cmd_list(st, pw, null0) ==
    LET s1 == Open(st, pw, null0)
    IN IF s1.pc # "loaded" THEN s1
       ELSE Exit([s1 EXCEPT !.out = ListLines(s1.L), !.ev = @ \o <<"zero pw", "free rows">>], 0)

\* list that removes the vault file once it has printed it
CmdListConsume(p, pw, null0) ==
    /\ CanStart(p)
    /\ proc' = [proc EXCEPT ![p] = cmd_list([Fresh EXCEPT !.cmd = "list"], pw, null0)]
    /\ vaultFile' = NoFile
    /\ UNCHANGED <<tmpFile, rng, saves, orig, flipped>>

CmdList(p, pw, null0) ==
    /\ CanStart(p)
    /\ proc' = [proc EXCEPT ![p] = cmd_list([Fresh EXCEPT !.cmd = "list"], pw, null0)]
    /\ UNCHANGED <<vaultFile, tmpFile, rng, saves, orig, flipped>>

\* the loop of cmd_show: the index of the first row whose three strtok
\* tokens exist and whose first token equals the query, 0 when none
ShowMatch(L, svc_q) ==
    LET tok(i) == StrTok(Truncate(L[i], MAX_LINE), TAB)
        hit == {i \in 1..Len(L) : Len(tok(i)) >= 3 /\ tok(i)[1] = svc_q}
    IN IF hit = {} THEN 0 ELSE CHOOSE i \in hit : \A j \in hit : i <= j

cmd_show(st, pw, null0) ==
    IF st.svc = NULLARG THEN Fail(st, "Usage: vault_aes show --service S")
    ELSE LET s1 == Open(st, pw, null0)
             i == ShowMatch(s1.L, st.svc)
             t == StrTok(Truncate(s1.L[i], MAX_LINE), TAB)
         IN IF s1.pc # "loaded" THEN s1
            ELSE IF i = 0
            THEN Fail([s1 EXCEPT !.ev = @ \o <<"zero pw", "free rows">>],
                      "No entry found for service")
            ELSE Exit([s1 EXCEPT !.out = << <<"service : ", t[1]>>, <<"user    : ", t[2]>>,
                                           <<"pass    : ", t[3]>> >>,
                                 !.ev = @ \o <<"zero pw", "free rows">>], 0)

\* a show that opens the vault file for writing before it reads it
CmdShowTruncating(p, svc_q, pw, null0) ==
    /\ CanStart(p)
    /\ proc' = [proc EXCEPT ![p] =
                  cmd_show([Fresh EXCEPT !.cmd = "show", !.svc = svc_q], pw, null0)]
    /\ vaultFile' = IF vaultFile.exists THEN [vaultFile EXCEPT !.data = <<>>] ELSE vaultFile
    /\ UNCHANGED <<tmpFile, rng, saves, orig, flipped>>

CmdShow(p, svc_q, pw, null0) ==
    /\ CanStart(p)
    /\ proc' = [proc EXCEPT ![p] =
                  cmd_show([Fresh EXCEPT !.cmd = "show", !.svc = svc_q], pw, null0)]
    /\ UNCHANGED <<vaultFile, tmpFile, rng, saves, orig, flipped>>

(* --------------------------- write_all_atomic ------------------------- *)

\* how much of the data has reached the temporary file when fwrite
\* returns or fails: stdio may hold any part of it back until fclose
WrittenLens(n) == {0, n \div 2, n}

\* s followed by zero bytes up to length n (a hole in a file)
Pad(s, n) == s \o [i \in 1..(n - Len(s)) |-> ByteCell(0)]

\* the bytes of a file after write() of the bytes new at offset off
Patch(data, off, new) == Pad(Take(data, off), off) \o new \o Drop(data, off + Len(new))

\* the stream of process p writes the bytes new at offset off of the file
\* it is open on, wherever that file is by now
StreamWrite(p, off, new) ==
    IF proc[p].fd = "tmp"
    THEN /\ tmpFile' = [tmpFile EXCEPT !.data = Patch(@, off, new)]
         /\ vaultFile' = vaultFile
    ELSE IF proc[p].fd = "vault"
    THEN /\ vaultFile' = [vaultFile EXCEPT !.data = Patch(@, off, new)]
         /\ tmpFile' = tmpFile
    ELSE UNCHANGED <<vaultFile, tmpFile>>

\* fopen(tmp, "wb"): creates the file or truncates the one that is there
FopenTmp(p, ok) ==
    /\ proc[p].pc = "fopen"
    /\ IF ok
       THEN /\ tmpFile' = File(<<>>, IF tmpFile.exists THEN tmpFile.mode ELSE MODE_CREATE)
            /\ proc' = [proc EXCEPT ![p] = [Event(@, "fopen") EXCEPT !.pc = "fwrite",
                                                                    !.fd = "tmp", !.off = 0]]
       ELSE /\ tmpFile' = tmpFile
            /\ proc' = [proc EXCEPT ![p] = Fail(@, "fopen tmp")]
    /\ UNCHANGED <<vaultFile, rng, saves, orig, flipped>>

\* fwrite on a stream opened on the vault path itself
FwriteInPlace(p, ok, k) ==
    /\ proc[p].pc = "fwrite"
    /\ k \in WrittenLens(Len(proc[p].outb))
    /\ vaultFile' = File(Take(proc[p].outb, k), MODE_CREATE)
    /\ proc' = [proc EXCEPT ![p] =
                  IF ok THEN [Event(@, "fwrite") EXCEPT !.pc = "fclose"]
                  ELSE Fail(@, "fwrite")]
    /\ UNCHANGED <<tmpFile, rng, saves, orig, flipped>>

\* fwrite(data, 1, n, f): k bytes have reached the file; when it fails the
\* process ends and its stream is closed
Fwrite(p, ok, k) ==
    /\ proc[p].pc = "fwrite"
    /\ k \in WrittenLens(Len(proc[p].outb))
    /\ StreamWrite(p, 0, Take(proc[p].outb, k))
    /\ proc' = [proc EXCEPT ![p] =
                  IF ok THEN [Event(@, "fwrite") EXCEPT !.pc = "fclose", !.off = k]
                  ELSE Fail([@ EXCEPT !.fd = "none"], "fwrite")]
    /\ UNCHANGED <<rng, saves, orig, flipped>>

\* fclose(f): flushes what stdio held back and closes the stream
Fclose(p, ok) ==
    /\ proc[p].pc = "fclose"
    /\ IF ok
       THEN /\ StreamWrite(p, proc[p].off, Drop(proc[p].outb, proc[p].off))
            /\ proc' = [proc EXCEPT ![p] = [Event(@, "fclose") EXCEPT
                                              !.pc = "rename", !.fd = "none",
                                              !.off = Len(proc[p].outb)]]
       ELSE /\ UNCHANGED <<vaultFile, tmpFile>>
            /\ proc' = [proc EXCEPT ![p] = Fail([@ EXCEPT !.fd = "none"], "fclose")]
    /\ UNCHANGED <<rng, saves, orig, flipped>>

\* where an open file is after rename(tmp, path): the file that was at the
\* temporary path is at the vault path, the one that was at the vault
\* path has no name left
Moved(fd) == IF fd = "tmp" THEN "vault" ELSE IF fd = "vault" THEN "gone" ELSE fd

\* rename(tmp, path): the temporary file replaces the vault in one step;
\* it fails when there is no file at the temporary path
Rename(p, ok) ==
    /\ proc[p].pc = "rename"
    /\ IF ok /\ tmpFile.exists
       THEN /\ vaultFile' = tmpFile
            /\ tmpFile' = NoFile
            /\ proc' = [q \in Procs |->
                          IF q = p THEN [Event(proc[p], "rename") EXCEPT !.pc = "chmod"]
                          ELSE [proc[q] EXCEPT !.fd = Moved(@)]]
       ELSE /\ UNCHANGED <<vaultFile, tmpFile>>
            /\ proc' = [proc EXCEPT ![p] = Fail(@, "rename")]
    /\ UNCHANGED <<rng, saves, orig, flipped>>

\* the end of save_vault and of the command without the chmod
FinishKeepMode(p) ==
    /\ proc[p].pc = "chmod"
    /\ proc' = [proc EXCEPT ![p] =
                  Exit([proc[p] EXCEPT
                          !.ev = @ \o <<"zero key", "zero plain", "zero ct",
                                        "zero out", "zero pw", "free rows">>,
                          !.out = << IF proc[p].cmd = "init"
                                     THEN <<"Initialized AES vault: vault_aes.dat", <<>> >>
                                     ELSE <<"Added entry for service: ", proc[p].svc>> >>],
                       0)]
    /\ UNCHANGED <<vaultFile, tmpFile, rng, saves, orig, flipped>>

\* chmod(path, 0600), the scrub at the end of save_vault, and the rest of
\* cmd_init or cmd_add: the message on stdout and return 0
Finish(p) ==
    /\ proc[p].pc = "chmod"
    /\ vaultFile' = IF vaultFile.exists THEN [vaultFile EXCEPT !.mode = MODE_OWNER]
                    ELSE vaultFile
    /\ proc' = [proc EXCEPT ![p] =
                  Exit([proc[p] EXCEPT
                          !.ev = @ \o <<"chmod", "zero key", "zero plain", "zero ct",
                                        "zero out", "zero pw", "free rows">>,
                          !.out = << IF proc[p].cmd = "init"
                                     THEN <<"Initialized AES vault: vault_aes.dat", <<>> >>
                                     ELSE <<"Added entry for service: ", proc[p].svc>> >>],
                       0)]
    /\ UNCHANGED <<tmpFile, rng, saves, orig, flipped>>

\* the process is killed while it is inside write_all_atomic
Crash(p) ==
    /\ proc[p].pc \in {"fopen", "fwrite", "fclose", "rename", "chmod"}
    /\ proc' = [proc EXCEPT ![p] = [@ EXCEPT !.pc = "crashed", !.exit = 137, !.fd = "none"]]
    /\ UNCHANGED <<vaultFile, tmpFile, rng, saves, orig, flipped>>

\* the process that has exited or was killed is gone
Reap(p) ==
    /\ proc[p].pc \in {"exited", "crashed"}
    /\ proc' = [proc EXCEPT ![p] = Fresh]
    /\ UNCHANGED <<vaultFile, tmpFile, rng, saves, orig, flipped>>

(* ---------------------------- specification --------------------------- *)

\* the prompts answered and the arguments given
PwInputs == Passwords \cup {PW_NULL}

Step(p) ==
    \/ \E known \in BOOLEAN : CmdOther(p, known)
    \/ \E pw1 \in PwInputs, pw2 \in PwInputs, fault \in SaveFaults :
          CmdInit(p, pw1, pw2, fault)
    \/ \E svc \in Services \cup {NULLARG}, usr \in Users, pwd \in Secrets,
          pw \in PwInputs, null0 \in Null0Choices(vaultFile) :
          CmdAdd(p, svc, usr, pwd, pw, null0)
    \/ \E fault \in SaveFaults : AddSave(p, fault)
    \/ \E pw \in PwInputs, null0 \in Null0Choices(vaultFile) : CmdList(p, pw, null0)
    \/ \E q \in Services \cup {NULLARG}, pw \in PwInputs, null0 \in Null0Choices(vaultFile) :
          CmdShow(p, q, pw, null0)
    \/ \E ok \in BOOLEAN : FopenTmp(p, ok)
    \/ \E ok \in BOOLEAN, k \in 0..Len(proc[p].outb) : Fwrite(p, ok, k)
    \/ \E ok \in BOOLEAN : Fclose(p, ok)
    \/ \E ok \in BOOLEAN : Rename(p, ok)
    \/ Finish(p)
    \/ Crash(p)
    \/ Reap(p)

\* one invocation at a time, always as process 1
Next == Step(1)

Spec == Init /\ [][Next]_vars

(* ------------------- a saved container tampered with ------------------ *)

\* the rows cmd_add accepts
ValidRows ==
    {MakeLine(svc, usr, pwd) : svc \in Services \ {<<TAB>>}, usr \in Users \ {<<NL>>},
                               pwd \in Secrets}

\* the vaults of at most n rows
RECURSIVE Vaults(_)
Vaults(n) ==
    IF n = 0 THEN {<<>>}
    ELSE Vaults(n - 1) \cup {Append(L, r) : L \in Vaults(n - 1), r \in ValidRows}

\* the vault file is a container save_vault wrote; no process runs
InitTamper ==
    /\ \E L \in Vaults(MaxRows), pw \in Passwords :
          /\ orig = [file |-> File(Container(L, pw, crypto_rand(1, SALT_LEN),
                                             crypto_rand(2, NONCE_LEN)), MODE_OWNER),
                     L |-> L, pw |-> pw]
          /\ vaultFile = orig.file
    /\ tmpFile = NoFile
    /\ proc = [p \in Procs |-> Fresh]
    /\ rng = 2
    /\ saves = <<[salt |-> crypto_rand(1, SALT_LEN), nonce |-> crypto_rand(2, NONCE_LEN)]>>
    /\ flipped = {}

\* cells with bit k of byte i flipped
FlipAt(cells, i, k) == [cells EXCEPT ![i] = FlipCell(@, k)]

\* someone flips one bit of the stored file, once
Tamper(i, k) ==
    /\ flipped = {}
    /\ \A q \in Procs : proc[q].pc = "idle"
    /\ vaultFile.exists
    /\ i \in 1..Len(vaultFile.data)
    /\ vaultFile' = [vaultFile EXCEPT !.data = FlipAt(@, i, k)]
    /\ flipped' = {<<i, k>>}
    /\ UNCHANGED <<tmpFile, proc, rng, saves, orig>>

NextTamper ==
    \/ \E i \in 1..Len(vaultFile.data), k \in 0..7 : Tamper(i, k)
    \/ \E pw \in Passwords : CmdList(1, pw, FALSE)
    \/ Reap(1)

SpecTamper == InitTamper /\ [][NextTamper]_vars

(* ------------------------- a saved container read --------------------- *)

\* lines a decrypted blob can hold that are no record of three fields: a
\* line without a tab and a line of two fields (what snprintf leaves of a
\* row cut at MAX_LINE - 1 characters, or what another writer of the
\* format stored)
OddRows == {<<120>>, <<120, TAB, 121>>}

\* the Lines of at most n rows, records or not
RECURSIVE Blobs(_)
Blobs(n) ==
    IF n = 0 THEN {<<>>}
    ELSE Blobs(n - 1) \cup {Append(L, r) : L \in Blobs(n - 1), r \in ValidRows \cup OddRows}

\* the vault file is a container that holds the rows L under password pw
Saved(L, pw) ==
    /\ orig = [file |-> File(Container(L, pw, crypto_rand(1, SALT_LEN),
                                       crypto_rand(2, NONCE_LEN)), MODE_OWNER),
               L |-> L, pw |-> pw]
    /\ vaultFile = orig.file
    /\ tmpFile = NoFile
    /\ proc = [p \in Procs |-> Fresh]
    /\ rng = 2
    /\ saves = <<[salt |-> crypto_rand(1, SALT_LEN), nonce |-> crypto_rand(2, NONCE_LEN)]>>
    /\ flipped = {}

InitReads == \E L \in Blobs(MaxRows), pw \in Passwords : Saved(L, pw)

\* list and show invocations, one after another, by either process; the
\* result of an invocation stays until the process is reaped
NextReads ==
    \E p \in Procs :
        \/ \E pw \in Passwords : CmdList(p, pw, FALSE)
        \/ \E q \in Services \cup {NULLARG}, pw \in Passwords : CmdShow(p, q, pw, FALSE)
        \/ Reap(p)

SpecReads == InitReads /\ [][NextReads]_vars

(* ------------------ a saved container altered, then read -------------- *)

\* the file is cut to its first n bytes
CutFile(n) ==
    /\ \A q \in Procs : proc[q].pc = "idle"
    /\ n < Len(vaultFile.data)
    /\ vaultFile' = [vaultFile EXCEPT !.data = Take(@, n)]
    /\ UNCHANGED <<tmpFile, proc, rng, saves, orig, flipped>>

\* another file is put at the vault path
Replace(d) ==
    /\ \A q \in Procs : proc[q].pc = "idle"
    /\ vaultFile' = File(d, MODE_CREATE)
    /\ UNCHANGED <<tmpFile, proc, rng, saves, orig, flipped>>

\* the bits flipped here: the lowest and the highest of a byte
LoadBits == {0, 7}

\* the saved container is altered at most once (one bit flipped, cut
\* short, or replaced); list and show read what is there
NextLoad ==
    \/ /\ vaultFile = orig.file
       /\ \/ \E i \in 1..Len(vaultFile.data), k \in LoadBits : Tamper(i, k)
          \/ \E n \in 0..Len(vaultFile.data) : CutFile(n)
          \/ \E d \in ForeignFiles : Replace(d)
    \/ \E pw \in Passwords, null0 \in Null0Choices(vaultFile) : CmdList(1, pw, null0)
    \/ \E pw \in Passwords, null0 \in Null0Choices(vaultFile) : CmdShow(1, <<97>>, pw, null0)
    \/ Reap(1)

SpecLoad == InitTamper /\ [][NextLoad]_vars

(* ----------------------- invocations side by side -------------------- *)

\* the services the invocations that run side by side add
RaceServices == {<<97>>, <<98, 98>>}

\* a vault that init has just saved
InitRace == Saved(<<>>, "Secret1")

\* an add starts whatever the other process does: nothing in main or
\* cmd_add waits for, or locks out, another invocation
CmdAddRace(p, svc, pw) ==
    /\ proc[p].pc = "idle"
    /\ StartAdd(p, svc, <<117>>, <<112>>, pw, FALSE)

\* the steps of two processes interleave freely; each process is one
\* invocation
NextRace ==
    \E p \in Procs :
        \/ \E svc \in RaceServices, pw \in Passwords : CmdAddRace(p, svc, pw)
        \/ \E fault \in SaveFaults : AddSave(p, fault)
        \/ \E ok \in BOOLEAN : FopenTmp(p, ok)
        \/ \E ok \in BOOLEAN, k \in 0..Len(proc[p].outb) : Fwrite(p, ok, k)
        \/ \E ok \in BOOLEAN : Fclose(p, ok)
        \/ \E ok \in BOOLEAN : Rename(p, ok)
        \/ Finish(p)
        \/ Crash(p)

SpecRace == InitRace /\ [][NextRace]_vars

\* iteration counts a container may have been written with, as the four
\* little-endian bytes of the field: 1, 1000, the default, 2^31, 2^32 - 1
StoredIters ==
    {Le32(1), Le32(1000), Le32(PBKDF2_ITERS),
     Bytes(<<0, 0, 0, 128>>), Bytes(<<255, 255, 255, 255>>)}

\* the uint32_t count in four cells as a number: counts of 2^31 and more
\* are named by the negative number with the same 32 bits
CountOf(itc) == IF U32Big(itc) THEN (UnLe32(itc) - 2147483647) - 1 ELSE UnLe32(itc)

\* the container save_vault assembles when its count is the one in itc
\* rather than PBKDF2_ITERS: the key is PBKDF2 of that count, the field
\* holds that count
ContainerWith(L, password, salt, nonce, itc) ==
    LET plain == serialize(L)
        key == [pw |-> password, salt |-> Pack(salt), it |-> CountOf(itc)]
        enc == aes256gcm_encrypt(key, nonce, plain)
    IN Bytes(MAGIC) \o itc \o salt \o nonce
       \o Le32(Len(plain)) \o enc.ct \o enc.tag

\* the vault was written with one of the stored counts
InitIters ==
    /\ \E L \in Vaults(MaxRows), pw \in Passwords, itc \in StoredIters :
          /\ orig = [file |-> File(ContainerWith(L, pw, crypto_rand(1, SALT_LEN),
                                                 crypto_rand(2, NONCE_LEN), itc),
                                   MODE_OWNER),
                     L |-> L, pw |-> pw]
          /\ vaultFile = orig.file
    /\ tmpFile = NoFile
    /\ proc = [p \in Procs |-> Fresh]
    /\ rng = 2
    /\ saves = <<[salt |-> crypto_rand(1, SALT_LEN), nonce |-> crypto_rand(2, NONCE_LEN)]>>
    /\ flipped = {}

\* the number of saves made on a vault written with a stored count
MaxItersSaves == 1

\* list, show and add on that vault, one invocation at a time
NextIters ==
    \/ \E pw \in Passwords : CmdList(1, pw, FALSE)
    \/ \E pw \in Passwords : CmdShow(1, <<97>>, pw, FALSE)
    \/ \E pw \in Passwords :
          /\ CanStart(1)
          /\ Len(saves) < 1 + MaxItersSaves
          /\ StartAdd(1, <<97>>, <<117>>, <<112>>, pw, FALSE)
    \/ \E fault \in SaveFaults : AddSave(1, fault)
    \/ \E ok \in BOOLEAN : FopenTmp(1, ok)
    \/ \E ok \in BOOLEAN, k \in 0..Len(proc[1].outb) : Fwrite(1, ok, k)
    \/ \E ok \in BOOLEAN : Fclose(1, ok)
    \/ \E ok \in BOOLEAN : Rename(1, ok)
    \/ Finish(1)
    \/ Reap(1)

SpecIters == InitIters /\ [][NextIters]_vars

(* ------------------------------- claims ------------------------------- *)

HasEvent(st, e) == \E i \in 1..Len(st.ev) : st.ev[i] = e

\* s cut at every d, empty pieces kept
RECURSIVE Split(_, _)
Split(s, d) ==
    LET e == FindIn(s, 1, {d})
    IN IF e > Len(s) THEN <<s>> ELSE <<SubSeq(s, 1, e - 1)>> \o Split(Drop(s, e), d)

\* a record of three fields without tab or newline, as one row
IsRecord(row) == ~HasChar(row, NL) /\ Len(Split(row, TAB)) = 3

\* the process has called save_vault and the container is assembled
InSave(st) == st.outb # <<>>

\* load_vault succeeds on file f under password pw
Opens(f, pw) == load_vault(f, pw, FALSE).err = ""

LoadErrors == {E_NOVAULT, E_MALLOC, E_MAGIC, E_SMALL, E_OVERRUN, E_KDF, E_AUTH}

SaltOf(cells) == SubSeq(cells, MAGIC_LEN + 5, MAGIC_LEN + 4 + SALT_LEN)
NonceOf(cells) == SubSeq(cells, MAGIC_LEN + 4 + SALT_LEN + 1, MAGIC_LEN + 4 + SALT_LEN + NONCE_LEN)

\* C1: round trip.  Whenever save_vault has assembled the container of
\* rows that are records of three fields without tab or newline,
\* load_vault of that container with the same password succeeds and
\* parse_lines yields the same rows, in the same order.
C1_RoundTrip ==
    \A p \in Procs :
        (InSave(proc[p]) /\ \A i \in 1..Len(proc[p].L) : IsRecord(proc[p].L[i]))
        => LET r == load_vault(File(proc[p].outb, MODE_OWNER), proc[p].pw, FALSE)
           IN r.err = "" /\ r.L = proc[p].L

\* C2: atomic save.  From the moment the container is assembled, through
\* every step, failure and crash of write_all_atomic, the vault path
\* holds the file that was there when the save began (for add the
\* container just opened, for init no file), unchanged, until the rename;
\* after the rename it holds exactly the new container.
C2_AtomicSave ==
    \A p \in Procs :
        InSave(proc[p]) =>
            /\ proc[p].cmd = "add" => proc[p].old = proc[p].buf /\ proc[p].old.exists
            /\ proc[p].cmd = "init" => proc[p].old = NoFile
            /\ IF HasEvent(proc[p], "rename")
               THEN vaultFile.exists /\ vaultFile.data = proc[p].outb
               ELSE vaultFile = proc[p].old

\* a save died after part of the container reached the temporary file,
\* with an earlier container at the vault path
C2_Witness ==
    \E p \in Procs :
        /\ proc[p].pc \in {"exited", "crashed"}
        /\ InSave(proc[p])
        /\ ~HasEvent(proc[p], "rename")
        /\ proc[p].old.exists
        /\ tmpFile.exists
        /\ Len(tmpFile.data) > 0
        /\ tmpFile.data # proc[p].outb

\* the bytes of a container after its header: ciphertext, then tag
CtTagRegion(f) == (HEADER_LEN + 1)..Len(f.data)

\* process p read the saved container with exactly one bit of its
\* ciphertext or tag flipped, and gave the password it was saved under
ReadTampered(p) ==
    /\ HasEvent(proc[p], "read")
    /\ proc[p].pw = orig.pw
    /\ \E f \in flipped :
          /\ f[1] \in CtTagRegion(orig.file)
          /\ proc[p].buf.data = FlipAt(orig.file.data, f[1], f[2])

\* C3: tamper detection.  A command that reads a saved container in which
\* one bit of the ciphertext or of the tag was flipped, with the correct
\* password, exits with 1 and the authentication message, and has loaded
\* and printed no row.
C3_TamperDetected ==
    \A p \in Procs :
        ReadTampered(p) =>
            /\ proc[p].pc = "exited"
            /\ proc[p].exit = 1
            /\ proc[p].err = <<E_AUTH>>
            /\ proc[p].rows = <<>>
            /\ proc[p].out = <<>>

\* list has read a vault of one row in which a ciphertext bit was flipped
C3_Witness ==
    \E p \in Procs :
        /\ ReadTampered(p)
        /\ proc[p].cmd = "list"
        /\ Len(orig.L) = 1
        /\ \E f \in flipped : f[1] <= Len(orig.file.data) - TAG_LEN

\* process p read a container that opens under another password than the
\* one it gave
ReadWithWrongPassword(p) ==
    /\ HasEvent(proc[p], "read")
    /\ proc[p].pw \in Passwords
    /\ \E P \in Passwords \ {proc[p].pw} : Opens(proc[p].buf, P)

\* C4: wrong password.  A command (add, list, show) that reads a valid
\* container with a password other than the one it was saved under exits
\* with 1 and the authentication message; it loads no row, prints
\* nothing on stdout and saves nothing.
C4_WrongPassword ==
    \A p \in Procs :
        ReadWithWrongPassword(p) =>
            /\ proc[p].pc = "exited"
            /\ proc[p].exit = 1
            /\ proc[p].err = <<E_AUTH>>
            /\ proc[p].rows = <<>>
            /\ proc[p].L = <<>>
            /\ proc[p].out = <<>>
            /\ ~InSave(proc[p])

\* show was given the wrong password for a vault that holds a row
C4_Witness ==
    \E p \in Procs :
        /\ ReadWithWrongPassword(p)
        /\ proc[p].cmd = "show"
        /\ \E P \in Passwords : load_vault(proc[p].buf, P, FALSE).L # <<>>

\* C5: no partial vault.  When load_vault fails on the file a command
\* read, the command has exited with 1 and one of load_vault's messages,
\* and it holds no row, has printed nothing on stdout and has saved
\* nothing: rows are loaded, listed, shown or saved only after the tag
\* verified.
C5_NoPartialVault ==
    \A p \in Procs :
        (HasEvent(proc[p], "read") /\ ~Opens(proc[p].buf, proc[p].pw)) =>
            /\ proc[p].pc = "exited"
            /\ proc[p].exit = 1
            /\ Len(proc[p].err) = 1 /\ proc[p].err[1] \in LoadErrors
            /\ proc[p].L = <<>>
            /\ proc[p].rows = <<>>
            /\ proc[p].out = <<>>
            /\ ~InSave(proc[p])

\* add failed to authenticate against a vault that holds a row
C5_Witness ==
    \E p \in Procs :
        /\ proc[p].cmd = "add"
        /\ HasEvent(proc[p], "read")
        /\ proc[p].err = <<E_AUTH>>
        /\ \E P \in Passwords : load_vault(proc[p].buf, P, FALSE).L # <<>>

\* C6: init never overwrites.  In every step, if a file exists at the
\* vault path and the step belongs to an init invocation, the file's
\* bytes are the same after the step; and an init that starts while the
\* file exists ends in that step with exit code 1.
C6_InitNeverOverwrites ==
    [][\A p \in Procs :
          (vaultFile.exists /\ (proc[p].cmd = "init" \/ proc'[p].cmd = "init")) =>
              /\ vaultFile'.exists
              /\ vaultFile'.data = vaultFile.data
              /\ proc[p].pc = "idle" => proc'[p].pc = "exited" /\ proc'[p].exit = 1]_vars

\* init was refused on a vault that opens and holds a row
C6_Witness ==
    \E p \in Procs :
        /\ proc[p].cmd = "init"
        /\ proc[p].pc = "exited"
        /\ proc[p].exit = 1
        /\ proc[p].ev = <<>>
        /\ \E P \in Passwords : load_vault(vaultFile, P, FALSE).L # <<>>

\* C7: add appends.  When add has exited with 0, the container opens
\* under the same password to the rows it opened to before, followed by
\* the row of the three fields given, whole.
C7_AddAppends ==
    \A p \in Procs :
        (proc[p].cmd = "add" /\ proc[p].pc = "exited" /\ proc[p].exit = 0) =>
            LET r == load_vault(vaultFile, proc[p].pw, FALSE)
            IN /\ r.err = ""
               /\ r.L = Append(proc[p].rows,
                               proc[p].svc \o <<TAB>> \o proc[p].usr \o <<TAB>> \o proc[p].pwd)

\* some field of the add invocation holds a tab or a newline
BadField(st) ==
    \E f \in {st.svc, st.usr, st.pwd} : HasChar(f, TAB) \/ HasChar(f, NL)

\* C8: delimiter rejection.  The step that starts an add with a tab or a
\* newline in a field ends it with exit code 1 before any prompt, read or
\* write, and leaves the vault file and the temporary file as they were.
C8_DelimiterRejected ==
    [][\A p \in Procs :
          (proc[p].pc = "idle" /\ proc'[p].cmd = "add" /\ BadField(proc'[p])) =>
              /\ proc'[p].pc = "exited"
              /\ proc'[p].exit = 1
              /\ proc'[p].ev = <<>>
              /\ proc'[p].buf = NoFile
              /\ vaultFile' = vaultFile
              /\ tmpFile' = tmpFile]_vars

\* add with a tab in the service was refused on a vault that holds a row
C8_Witness ==
    \E p \in Procs :
        /\ proc[p].cmd = "add"
        /\ HasChar(proc[p].svc, TAB)
        /\ proc[p].pc = "exited"
        /\ proc[p].exit = 1
        /\ \E P \in Passwords : load_vault(vaultFile, P, FALSE).L # <<>>

\* C9: salt and nonce uniqueness, RAND_bytes taken never to repeat a
\* draw.  Any two saves have different salts and different nonces, and
\* the container a process assembled carries the salt and nonce of the
\* latest save.
C9_FreshSaltNonce ==
    /\ \A i, j \in 1..Len(saves) :
          i # j => saves[i].salt # saves[j].salt /\ saves[i].nonce # saves[j].nonce
    /\ \A p \in Procs :
          InSave(proc[p]) =>
              /\ saves # <<>>
              /\ SaltOf(proc[p].outb) = saves[Len(saves)].salt
              /\ NonceOf(proc[p].outb) = saves[Len(saves)].nonce

\* three saves were made and the latest is in the vault file
C9_Witness ==
    /\ Len(saves) >= 3
    /\ vaultFile.exists
    /\ Len(vaultFile.data) > HEADER_LEN
    /\ SaltOf(vaultFile.data) = saves[Len(saves)].salt

\* C10: show.  When show has opened the vault, it exits with 1 and the
\* not-found message exactly when no row has a service field equal to the
\* query; otherwise it exits with 0 and prints the three fields of the
\* first such row, also when the user or the secret of a row is empty.
C10_ShowFirstMatch ==
    \A p \in Procs :
        (proc[p].cmd = "show" /\ proc[p].pc = "exited" /\ HasEvent(proc[p], "read")
            /\ Opens(proc[p].buf, proc[p].pw)) =>
            LET R == proc[p].rows
                hits == {i \in 1..Len(R) : Split(R[i], TAB)[1] = proc[p].svc}
                first == CHOOSE i \in hits : \A j \in hits : i <= j
                f == Split(R[first], TAB)
            IN IF hits = {}
               THEN proc[p].exit = 1 /\ proc[p].out = <<>>
                    /\ proc[p].err = <<"No entry found for service">>
               ELSE proc[p].exit = 0
                    /\ proc[p].out = << <<"service : ", f[1]>>, <<"user    : ", f[2]>>,
                                        <<"pass    : ", f[3]>> >>

\* C11: list.  When list has opened the vault and exited with 0, it has
\* printed exactly one line per row of the vault, in the order of the
\* rows, and line i is the service field of row i (the text before the
\* first tab), also when that field is empty.
C11_ListServices ==
    \A p \in Procs :
        (proc[p].cmd = "list" /\ proc[p].pc = "exited" /\ proc[p].exit = 0) =>
            proc[p].out = [i \in 1..Len(proc[p].rows) |-> <<"", Split(proc[p].rows[i], TAB)[1]>>]

\* process p ran list or show to its end on the file it found, with the
\* password the container was saved under
ReadDone(p) ==
    /\ proc[p].cmd \in {"list", "show"}
    /\ proc[p].pc = "exited"
    /\ HasEvent(proc[p], "read")
    /\ proc[p].pw = orig.pw

\* C12: idempotent reads.  Two list invocations, or two show invocations
\* for the same service, with the correct password, with no add or init
\* between them, have printed the same lines on stdout, the same message
\* on stderr and ended with the same exit code.
C12_IdempotentReads ==
    \A p, q \in Procs :
        (ReadDone(p) /\ ReadDone(q) /\ proc[p].cmd = proc[q].cmd /\ proc[p].svc = proc[q].svc) =>
            /\ proc[p].out = proc[q].out
            /\ proc[p].err = proc[q].err
            /\ proc[p].exit = proc[q].exit

\* two show invocations for the same service have both printed a record
C12_Witness ==
    /\ \A p \in Procs : ReadDone(p) /\ proc[p].cmd = "show" /\ proc[p].exit = 0
    /\ proc[1].svc = proc[2].svc
    /\ Len(proc[1].out) = 3
    /\ vaultFile = orig.file

\* the file is shorter than its header implies: shorter than the fixed
\* header and the tag, or than those and the ciphertext length stored
TooShort(d) ==
    \/ Len(d) < HEADER_LEN + TAG_LEN
    \/ U32Big(SubSeq(d, HEADER_LEN - 3, HEADER_LEN))
    \/ Len(d) < HEADER_LEN + UnLe32(SubSeq(d, HEADER_LEN - 3, HEADER_LEN)) + TAG_LEN

FormatErrors == {E_MAGIC, E_SMALL, E_OVERRUN}

\* process p read file bytes and load_vault, run on them, reads no byte
\* past their end; when the file is too short the process has ended with
\* exit code 1 and one message, which is one of Allowed(bytes), before any
\* key derivation or decryption
LengthChecked(p, Allowed(_)) ==
    (HasEvent(proc[p], "read") /\ proc[p].buf.exists) =>
        LET d == proc[p].buf.data
        IN /\ \A null0 \in Null0Choices(proc[p].buf) :
                 load_vault(proc[p].buf, proc[p].pw, null0).reads <= Len(d)
           /\ TooShort(d) =>
                 /\ proc[p].pc = "exited"
                 /\ proc[p].exit = 1
                 /\ Len(proc[p].err) = 1
                 /\ proc[p].err[1] \in Allowed(d)
                 /\ proc[p].out = <<>>
                 /\ proc[p].rows = <<>>
                 /\ \A e \in {"kdf", "kdf failed", "decrypt", "parse"} : ~HasEvent(proc[p], e)

OnlyFormatErrors(d) == FormatErrors
FormatOrAlloc(d) == IF d = <<>> THEN FormatErrors \cup {E_MALLOC} ELSE FormatErrors

Malformed(row) == row # <<>> /\ row[1] # HASH /\ Len(Split(row, TAB)) # 3

\* C14: malformed record line.  A command that reads, with the correct
\* password, a container whose decrypted blob holds a non-comment,
\* non-empty line that is not three tab-separated fields ends with a
\* non-zero exit code and a message, and has loaded and printed no row.
C14_MalformedIsError ==
    \A p \in Procs :
        (ReadDone(p) /\ proc[p].buf = orig.file
            /\ \E i \in 1..Len(orig.L) : Malformed(orig.L[i])) =>
            /\ proc[p].exit # 0
            /\ proc[p].err # <<>>
            /\ proc[p].rows = <<>>
            /\ proc[p].out = <<>>

\* C15: atomic decryption.  Whenever aes256gcm_decrypt, called by
\* load_vault on the file a process read, returns the failure value, the
\* output buffer it was given holds no byte it decrypted.
C15_NoPlaintextOnFailure ==
    \A p \in Procs :
        HasEvent(proc[p], "read") =>
            LET r == load_vault(proc[p].buf, proc[p].pw, FALSE)
            IN r.err = E_AUTH => r.plain = <<>>

\* the position of the last call among S in the calls of the process, 0
\* when there is none
LastOf(st, S) ==
    LET I == {i \in 1..Len(st.ev) : st.ev[i] \in S}
    IN IF I = {} THEN 0 ELSE CHOOSE i \in I : \A j \in I : j <= i

\* the key buffer was filled and not zeroed since
KeyLive(st) == LastOf(st, {"kdf"}) > LastOf(st, {"zero key"})

\* a plaintext buffer (the decrypted blob of load_vault, the serialized
\* blob of save_vault) was filled and not zeroed since
PlainLive(st) == LastOf(st, {"decrypt", "serialize"}) > LastOf(st, {"zero plain"})

\* Lines holds rows and they were not zeroed
RowsLive(st) == st.L # <<>> /\ ~HasEvent(st, "zero rows")

\* the messages of the failure exits of load_vault and save_vault once a
\* secret may be in memory
SecretFailures == {E_KDF, E_AUTH, "encrypt failed", "fopen tmp", "fwrite", "fclose", "rename"}

\* C16: scrub on failure.  When a process has ended on a failure exit of
\* load_vault or save_vault (KDF, encryption, authentication, fopen,
\* fwrite, fclose, rename), no key buffer and no plaintext buffer it
\* filled is left without having been zeroed.
C16_ScrubOnFailure ==
    \A p \in Procs :
        (proc[p].pc = "exited" /\ proc[p].exit = 1 /\ proc[p].err # <<>>
            /\ proc[p].err[1] \in SecretFailures) =>
            ~KeyLive(proc[p]) /\ ~PlainLive(proc[p])

\* C17: plaintext erasure.  When a command has ended, with success or
\* failure, the decrypted blob, the serialized blob and the rows held in
\* Lines have all been zeroed.
C17_PlaintextErased ==
    \A p \in Procs :
        proc[p].pc = "exited" => ~PlainLive(proc[p]) /\ ~RowsLive(proc[p])

\* C18: key lifetime.  While save_vault assembles and writes the
\* container (fopen to chmod) the key buffer is zero, and in load_vault
\* the key buffer is zeroed before parse_lines runs.
C18_KeyLifetime ==
    \A p \in Procs :
        /\ proc[p].pc \in {"fopen", "fwrite", "fclose", "rename", "chmod"} => ~KeyLive(proc[p])
        /\ \A i \in 1..Len(proc[p].ev) :
              proc[p].ev[i] = "parse" =>
                  \E j \in 1..(i - 1) :
                      /\ proc[p].ev[j] = "zero key"
                      /\ \A k \in (j + 1)..(i - 1) : proc[p].ev[k] # "kdf"

\* C19: uniform failure.  Every open that fails (wrong password, a bit of
\* the ciphertext or tag flipped, the file cut short, a foreign file) ends
\* the process with exit code 1, exactly one message on stderr and
\* nothing on stdout; a wrong password on the saved container and the
\* right password on the container with a ciphertext or tag bit flipped
\* give the same message, the one load_vault prints for the wrong
\* password on the container as saved.
C19_UniformFailure ==
    \A p \in Procs :
        (HasEvent(proc[p], "read") /\ ~Opens(proc[p].buf, proc[p].pw)) =>
            /\ proc[p].pc = "exited"
            /\ proc[p].exit = 1
            /\ Len(proc[p].err) = 1
            /\ proc[p].out = <<>>
            /\ (ReadTampered(p) \/ ReadWithWrongPassword(p)) => proc[p].err = <<E_AUTH>>
            /\ ReadTampered(p) =>
                  \A P \in Passwords \ {orig.pw} :
                      load_vault(orig.file, P, FALSE).err = proc[p].err[1]

\* show read a one-row container with a tag bit flipped, under the right
\* password, and failed
C19_Witness ==
    \E p \in Procs :
        /\ ReadTampered(p)
        /\ proc[p].cmd = "show"
        /\ proc[p].exit = 1
        /\ Len(orig.L) = 1
        /\ \E f \in flipped : f[1] > Len(orig.file.data) - TAG_LEN

\* the row cmd_add of process p appends
NewRow(p) == MakeLine(proc[p].svc, proc[p].usr, proc[p].pwd)

\* two add invocations have both ended with exit code 0 after loading the
\* same rows
BothAdded ==
    /\ \A p \in Procs : proc[p].cmd = "add" /\ proc[p].pc = "exited" /\ proc[p].exit = 0
    /\ proc[1].rows = proc[2].rows

\* C20: lost update.  When two add invocations that loaded the same rows
\* have both ended with exit code 0, the container opens to those rows
\* followed by the new row of one of the two only: the other row is lost.
C20_LostUpdate ==
    BothAdded =>
        LET r == load_vault(vaultFile, proc[1].pw, FALSE)
        IN /\ r.err = ""
           /\ r.L \in {Append(proc[1].rows, NewRow(1)), Append(proc[2].rows, NewRow(2))}

\* two adds of different services both ended with exit code 0 and the
\* container holds one row
C20_Witness ==
    /\ BothAdded
    /\ proc[1].svc # proc[2].svc
    /\ Len(load_vault(vaultFile, proc[1].pw, FALSE).L) = Len(proc[1].rows) + 1

\* how often the call e stands in the calls of the process
Count(st, e) == Cardinality({i \in 1..Len(st.ev) : st.ev[i] = e})

\* C21: init creates an empty vault.  When init has ended with exit code
\* 0, there was no file at the vault path when it began, the file now
\* there opens under the password given to the empty list of rows (list
\* prints no line, show finds no service), and init drew salt and nonce
\* once and renamed once.
C21_InitEmptyVault ==
    \A p \in Procs :
        (proc[p].cmd = "init" /\ proc[p].pc = "exited" /\ proc[p].exit = 0) =>
            /\ proc[p].old = NoFile
            /\ vaultFile.exists
            /\ vaultFile.data = proc[p].outb
            /\ LET r == load_vault(vaultFile, proc[p].pw, FALSE)
               IN /\ r.err = ""
                  /\ r.L = <<>>
                  /\ ListLines(r.L) = <<>>
                  /\ \A q \in Services : ShowMatch(r.L, q) = 0
            /\ Count(proc[p], "rand") = 1
            /\ Count(proc[p], "rename") = 1

\* init has ended with exit code 0 and the vault is owner-only
C21_Witness ==
    \E p \in Procs :
        /\ proc[p].cmd = "init"
        /\ proc[p].pc = "exited"
        /\ proc[p].exit = 0
        /\ vaultFile.mode = MODE_OWNER
        /\ Len(saves) = 1

\* C22: state machine.  In every step taken while no file is at the vault
\* path, an add, list or show that starts ends at once with exit code 1,
\* and the file can appear only through the rename of an init; in every
\* step taken while a file is there, a file is there afterwards.
C22_StateMachine ==
    [][/\ ~vaultFile.exists =>
            /\ \A p \in Procs :
                  (proc[p].pc = "idle" /\ proc'[p].cmd \in {"add", "list", "show"}) =>
                      /\ proc'[p].pc = "exited"
                      /\ proc'[p].exit = 1
                      /\ ~InSave(proc'[p])
            /\ vaultFile'.exists =>
                  \E p \in Procs :
                      /\ proc[p].cmd = "init"
                      /\ proc[p].pc = "rename"
                      /\ proc'[p].pc = "chmod"
                      /\ vaultFile'.data = proc[p].outb
       /\ vaultFile.exists => vaultFile'.exists]_vars

\* add with valid fields and a password was refused because no vault
\* exists, and none exists afterwards
C22_Witness ==
    \E p \in Procs :
        /\ proc[p].cmd = "add"
        /\ proc[p].pc = "exited"
        /\ proc[p].exit = 1
        /\ proc[p].err = <<E_NOVAULT>>
        /\ ~vaultFile.exists
        /\ ~tmpFile.exists

\* the steps of a save, in the order save_vault and write_all_atomic take
\* them
SaveOrder == <<"rand", "serialize", "kdf", "encrypt", "assemble",
               "fopen", "fwrite", "fclose", "rename", "chmod">>

\* the steps of the save the process has taken so far: its calls from the
\* draw of the salt on, those that are steps of a save
SaveTrace(st) ==
    LET from == LastOf(st, {"rand"})
        tail == IF from = 0 THEN <<>> ELSE SubSeq(st.ev, from, Len(st.ev))
    IN SelectSeq(tail, LAMBDA e : \E i \in 1..Len(SaveOrder) : SaveOrder[i] = e)

WholeContainers ==
    {orig.file.data} \cup {proc[p].outb : p \in {q \in Procs : InSave(proc[q])}}

\* C24: last writer wins.  While saving invocations run side by side, the
\* file at the vault path is in every state the complete container that
\* was there before or the complete container one of the savers built,
\* never a mixed or partly written one; and a saver that has ended with
\* exit code 0 has left a complete container there.
C24_LastWriterWins ==
    /\ vaultFile.exists
    /\ vaultFile.data \in WholeContainers

\* the four bytes of the iteration count field of a container
ItersOf(cells) == SubSeq(cells, MAGIC_LEN + 1, MAGIC_LEN + 4)

\* C25: stored work factor.  A command that reads, with its password, a
\* container written with any iteration count opens it and gets the
\* lines of its plaintext; and every container a save builds holds PBKDF2_ITERS as its
\* count and is encrypted under the key derived with that count.
C25_StoredWorkFactor ==
    \A p \in Procs :
        /\ (HasEvent(proc[p], "read") /\ proc[p].buf = orig.file /\ proc[p].pw = orig.pw) =>
              /\ HasEvent(proc[p], "parse")
              /\ proc[p].rows = parse_lines(serialize(orig.L))
        /\ InSave(proc[p]) =>
              /\ ItersOf(proc[p].outb) = Le32(PBKDF2_ITERS)
              /\ proc[p].outb = ContainerWith(proc[p].L, proc[p].pw, SaltOf(proc[p].outb),
                                              NonceOf(proc[p].outb), Le32(PBKDF2_ITERS))

\* the same for the counts below 2^31 only
C25_BelowTwoTo31 ==
    ~U32Big(ItersOf(orig.file.data)) => C25_StoredWorkFactor

\* the header fields after the magic: iterations, salt, nonce, ciphertext
\* length
FieldRegion == (MAGIC_LEN + 1)..HEADER_LEN

\* process p read the saved container with exactly one bit flipped, in a
\* byte of the positions in region
ReadFlippedIn(p, region) ==
    /\ HasEvent(proc[p], "read")
    /\ \E f \in flipped :
          /\ f[1] \in region
          /\ proc[p].buf.data = FlipAt(orig.file.data, f[1], f[2])

\* C26: header integrity.  A command that reads, with the correct
\* password, a saved container in which one bit of the iterations, salt,
\* nonce or ciphertext-length field was flipped exits with 1 and one
\* message, that of the overrun check, of the key derivation or of the
\* authentication, and has loaded and printed no row; and with whatever
\* password, a container with a bit of its header flipped is never parsed
\* into rows.
C26_HeaderIntegrity ==
    \A p \in Procs :
        /\ (ReadFlippedIn(p, FieldRegion) /\ proc[p].pw = orig.pw) =>
              /\ proc[p].pc = "exited"
              /\ proc[p].exit = 1
              /\ proc[p].err \in {<<E_OVERRUN>>, <<E_KDF>>, <<E_AUTH>>}
              /\ proc[p].rows = <<>>
              /\ proc[p].out = <<>>
        /\ ReadFlippedIn(p, 1..HEADER_LEN) =>
              /\ ~HasEvent(proc[p], "parse")
              /\ proc[p].rows = <<>>
              /\ proc[p].exit = 1

\* list has read, with the correct password, a vault of one row in which
\* a bit of the salt was flipped, and the authentication failed
C26_Witness ==
    \E p \in Procs :
        /\ ReadFlippedIn(p, (MAGIC_LEN + 5)..(MAGIC_LEN + 4 + SALT_LEN))
        /\ proc[p].pw = orig.pw
        /\ proc[p].cmd = "list"
        /\ proc[p].err = <<E_AUTH>>
        /\ Len(orig.L) = 1

\* the passwords file f opens under
OpenedBy(f) == {P \in Passwords : Opens(f, P)}

\* C27: password invariance.  In every step of a sequence of init, add,
\* list and show invocations: the file that appears at the vault path
\* opens under the password of the init that wrote it and under no
\* other; the file at the vault path after the step opens under the same
\* passwords as the one before it; a file a command puts there opens
\* under exactly one password; and the container an add builds is
\* encrypted under the password that opened the container the add read.
C27_PasswordInvariance ==
    [][/\ (~vaultFile.exists /\ vaultFile'.exists) =>
              \E p \in Procs : /\ proc[p].cmd = "init"
                               /\ proc[p].pc = "rename"
                               /\ OpenedBy(vaultFile') = {proc[p].pw}
       /\ (vaultFile.exists /\ vaultFile' # vaultFile) =>
              OpenedBy(vaultFile') = OpenedBy(vaultFile)
       /\ vaultFile' # vaultFile => \E P \in Passwords : OpenedBy(vaultFile') = {P}
       /\ \A p \in Procs :
              (proc[p].cmd = "add" /\ proc[p].pc = "loaded" /\ InSave(proc'[p])) =>
                  /\ OpenedBy(proc[p].buf) = {proc[p].pw}
                  /\ OpenedBy(File(proc'[p].outb, MODE_CREATE)) = {proc[p].pw}]_vars

\* a second add has ended with exit code 0 and the vault opens under the
\* password of the init only
C27_Witness ==
    \E p \in Procs :
        /\ proc[p].cmd = "add"
        /\ proc[p].pc = "exited"
        /\ proc[p].exit = 0
        /\ Len(proc[p].rows) = 1
        /\ vaultFile.data = proc[p].outb
        /\ OpenedBy(vaultFile) = {proc[p].pw}

\* the invocation of process p is an init or an add that got as far as
\* saving: an init on a path with no file whose two passwords agreed, an
\* add with all three arguments, no tab or newline in them, whose
\* password opened the file it read
Saver(st) ==
    /\ InSave(st)
    /\ st.pw \in Passwords
    /\ \/ st.cmd = "init" /\ ~st.old.exists
       \/ /\ st.cmd = "add"
          /\ NULLARG \notin {st.svc, st.usr, st.pwd}
          /\ ~BadField(st)
          /\ st.old = st.buf
          /\ Opens(st.buf, st.pw)

\* C28: write frame.  A step changes the file at the vault path (its
\* presence, bytes or mode) only if it is the rename or the chmod of an
\* init or add that got as far as saving; and a step in which an
\* invocation ends without having saved (list, show, an add or init that
\* failed before its save, usage, unknown command) leaves the file as it
\* was.
C28_WriteFrame ==
    [][/\ vaultFile' # vaultFile =>
              \E p \in Procs : /\ Saver(proc[p])
                               /\ proc[p].pc \in {"rename", "chmod"}
                               /\ proc'[p].pc \in {"chmod", "exited"}
                               /\ vaultFile'.data = proc[p].outb
       /\ \A p \in Procs :
              (proc'[p] # proc[p] /\ proc'[p].pc = "exited" /\ ~InSave(proc'[p])) =>
                  vaultFile' = vaultFile]_vars

\* an add with a wrong password has ended with the authentication
\* message on a vault that an earlier add wrote, and the vault is as that
\* add left it
C28_Witness ==
    \E p \in Procs :
        /\ proc[p].cmd = "add"
        /\ proc[p].pc = "exited"
        /\ proc[p].err = <<E_AUTH>>
        /\ ~InSave(proc[p])
        /\ vaultFile = proc[p].buf
        /\ Len(saves) >= 2
        /\ \E P \in Passwords : load_vault(vaultFile, P, FALSE).L # <<>>

=============================================================================
